---- MODULE Spec2Model ----
(***************************************************************************)
(* Model of gitoxide-core's pack explosion (pack/explode.rs): the parsing  *)
(* of the safety-check key, pack_or_pack_index with its per-object visitor *)
(* and output writer, and the deletion of the pack's backing files.        *)
(* The traversal service, the loose object store and the sink live in      *)
(* git-odb; they are modelled after their description in the               *)
(* specification.  A second part models gix-url's Scheme: the conversion   *)
(* from a name, as_str and Display.                                        *)
(***************************************************************************)
EXTENDS Integers, FiniteSets, Sequences, TLC

\* ------------------------------------------------------------------ bounds
MaxEntries == 3
MaxWorkers == 2
\* longest scheme name converted
MaxNameLen == 5

\* ------------------------------------------------------------ value spaces
None == "None"
\* no id: the empty tuple (ids are pairs)
NoId == << >>
\* Option<usize>: None is the empty tuple, Some(n) is <<n>>
Some(n) == <<n>>
NoLimit == << >>

\* object kinds met in a pack; every kind but Tree takes the same branch
Kinds == {"Blob", "Tree"}
\* decoded object contents
Contents == {"a", "b"}
\* what decoding an entry yields: its bytes, or a decode failure
Corrupt == "corrupt"
Bufs == Contents \cup {Corrupt}

\* a content id is the hash of (kind, content); the pairing is injective
Hash(kind, buf) == <<kind, buf>>
Oids == {Hash(k, c) : k \in Kinds, c \in Contents}
KindOf(oid) == oid[1]

\* the texts given as safety-check key
Keys == {"all", "skip-file-checksum", "skip-file-and-object-checksum",
         "skip-file-and-object-checksum-and-no-abort-on-decode",
         "All", "ALL", "Skip-File-Checksum", "skip_file_checksum", "",
         "skip-file-checksum ", "none"}

\* paths
PackPath == "p"
IndexPath == "p.idx"
DataPath == "p.pack"
\* object directory arguments: an existing directory, a missing path, a file
ObjectPaths == {None, "objs", "missing", "afile"}
Directories == {"objs"}

\* ------------------------------------------------------------- SafetyCheck
SafetyChecks == {"All", "SkipFileChecksumVerification",
                 "SkipFileAndObjectChecksumVerification",
                 "SkipFileAndObjectChecksumVerificationAndNoAbortOnDecodeError"}

variants == <<"all", "skip-file-checksum", "skip-file-and-object-checksum",
              "skip-file-and-object-checksum-and-no-abort-on-decode">>

ParseOk(v) == [ok |-> TRUE, val |-> v, err |-> <<>>]
ParseErr(s) == [ok |-> FALSE, val |-> None,
                err |-> <<"Unknown value for safety check: '", s, "'">>]

from_str_nocase(s) ==
    CASE s \in {"skip-file-checksum", "Skip-File-Checksum"}
           -> ParseOk("SkipFileChecksumVerification")
      [] s = "skip-file-and-object-checksum"
           -> ParseOk("SkipFileAndObjectChecksumVerification")
      [] s = "skip-file-and-object-checksum-and-no-abort-on-decode"
           -> ParseOk("SkipFileAndObjectChecksumVerificationAndNoAbortOnDecodeError")
      [] s \in {"all", "All", "ALL"} -> ParseOk("All")
      [] OTHER -> ParseErr(s)

from_str(s) ==
    CASE s = "skip-file-checksum" -> ParseOk("SkipFileChecksumVerification")
      [] s = "skip-file-and-object-checksum"
           -> ParseOk("SkipFileAndObjectChecksumVerification")
      [] s = "skip-file-and-object-checksum-and-no-abort-on-decode"
           -> ParseOk("SkipFileAndObjectChecksumVerificationAndNoAbortOnDecodeError")
      [] s = "all" -> ParseOk("All")
      [] OTHER -> ParseErr(s)

TraverseCheck_middle_as_lenient(v) ==
    CASE v = "All" -> "traverse::All"
      [] v = "SkipFileChecksumVerification" -> "traverse::SkipFileChecksumVerification"
      [] v = "SkipFileAndObjectChecksumVerification"
           -> "traverse::SkipFileAndObjectChecksumVerificationAndNoAbortOnDecodeError"
      [] v = "SkipFileAndObjectChecksumVerificationAndNoAbortOnDecodeError"
           -> "traverse::SkipFileAndObjectChecksumVerificationAndNoAbortOnDecodeError"

TraverseCheck_lenient_as_middle(v) ==
    CASE v = "All" -> "traverse::All"
      [] v = "SkipFileChecksumVerification" -> "traverse::SkipFileChecksumVerification"
      [] v = "SkipFileAndObjectChecksumVerification"
           -> "traverse::SkipFileAndObjectChecksumVerification"
      [] v = "SkipFileAndObjectChecksumVerificationAndNoAbortOnDecodeError"
           -> "traverse::SkipFileAndObjectChecksumVerification"

\* From<SafetyCheck> for pack::index::traverse::SafetyCheck
TraverseCheck(v) ==
    CASE v = "All" -> "traverse::All"
      [] v = "SkipFileChecksumVerification" -> "traverse::SkipFileChecksumVerification"
      [] v = "SkipFileAndObjectChecksumVerification"
           -> "traverse::SkipFileAndObjectChecksumVerification"
      [] v = "SkipFileAndObjectChecksumVerificationAndNoAbortOnDecodeError"
           -> "traverse::SkipFileAndObjectChecksumVerificationAndNoAbortOnDecodeError"

Lenient == "traverse::SkipFileAndObjectChecksumVerificationAndNoAbortOnDecodeError"

\* the traversal service aborts on a per-object error unless the most lenient
\* level is active
FatalError(tcheck) == tcheck # Lenient

\* only the strictest level verifies the checksum of the pack file
VerifiesFileChecksum(tcheck) == tcheck = "traverse::All"
\* what aborted the traversal when the pack file's checksum does not match
ChecksumMismatch == <<"checksum">>

\* ------------------------------------------------------------------ errors
Pending == [status |-> "Pending", err |-> None, paths |-> <<>>]
Ok == [status |-> "Ok", err |-> None, paths |-> <<>>]
Err(kind, paths) == [status |-> "Err", err |-> kind, paths |-> paths]

\* Error::ObjectEncodeMismatch(kind, actual, expected), built positionally
ObjectEncodeMismatch(kind, actual, expected) ==
    [err |-> "ObjectEncodeMismatch", kind |-> kind, actual |-> actual, expected |-> expected]
\* Error::Write(err, kind, id)
WriteError(kind, id) ==
    [err |-> "Write", kind |-> kind, actual |-> NoId, expected |-> id]
\* a decode failure of the traversal service, with the kind and id of the entry
DecodeError(kind, id) ==
    [err |-> "Decode", kind |-> kind, actual |-> NoId, expected |-> id]
NoError == [err |-> None, kind |-> None, actual |-> NoId, expected |-> NoId]

\* ------------------------------------------------------------ OutputWriter
OutputWriter_new_always_loose(path) == "Loose"

OutputWriter_new(path) == IF path # None THEN "Loose" ELSE "Sink"

\* ------------------------------------------------------------------- state
VARIABLES
    pc,           \* position of the orchestrating thread
    key,          \* the safety-check key given
    parsed,       \* result of SafetyCheck::from_str
    packFiles,    \* backing files of the pack that exist when the run starts
    pack,         \* the pack index: recorded id -> what decoding the entry yields
    object_path,  \* argument: the object directory, or None
    thread_limit, \* argument: NoLimit or Some(number of threads)
    delete_pack,  \* argument
    bundleOpen,   \* the bundle holds the pack's files open
    store,        \* ids of the objects in the loose object store at object_path
    temp,         \* temporary files of writes in flight: worker -> id or NoId
    writer,       \* worker -> variant of its OutputWriter, or None
    caches,       \* decode caches created
    wpc,          \* worker -> position
    cur,          \* worker -> recorded id of the entry in work, or NoId
    written,      \* recorded id -> id the output writer returned, or NoId
    vres,         \* recorded id -> state and outcome of the entry
    verr,         \* recorded id -> the error reported for the entry
    visitorCalls, \* invocations of the visitor
    processed,    \* objects counted as processed
    treeNotes,    \* recorded id -> informational notes emitted about that tree
    recorded,     \* entries whose failure was recorded without aborting
    fatal,        \* the entry whose failure aborted the traversal, or NoId
    travResult,   \* outcome of the traversal: Pending, Ok or Err
    removedNote,  \* notes emitted about removed pack files
    removals,     \* removals of a file performed: path, bundle open, workers busy
    result,       \* what the run returned
    value,        \* the text a Scheme is converted from
    scheme,       \* Scheme::from(value), once converted
    name,         \* what as_str returned for the scheme, once called
    shown         \* what Display wrote for the scheme, once formatted

explodeVars ==
    <<pc, key, parsed, packFiles, pack, object_path, thread_limit, delete_pack,
      bundleOpen, store, temp, writer, caches, wpc, cur, written, vres, verr,
      visitorCalls, processed, treeNotes, recorded, fatal, travResult,
      removedNote, removals, result>>
schemeVars == <<value, scheme, name, shown>>
vars == <<explodeVars, schemeVars>>

\* not converted, not called yet
Unset == << >>

\* MaxWorkers is the default parallelism, used when no limit is given; the
\* limits given are the smaller numbers of threads
Workers == 1 .. MaxWorkers
ThreadLimits == {NoLimit} \cup {Some(n) : n \in 1 .. MaxWorkers - 1}

\* the packs: up to MaxEntries entries with distinct recorded ids
Packs ==
    UNION {[S -> Bufs] : S \in {T \in SUBSET Oids : Cardinality(T) <= MaxEntries}}

Entries == DOMAIN pack

\* the workers the traversal runs: thread_limit, or the default parallelism
Active == IF thread_limit = NoLimit THEN Workers ELSE 1 .. thread_limit[1]

Busy == {w \in Workers : wpc[w] \notin {"off", "idle"}}

\* the files of the pack that exist now
Removed == {r.path : r \in removals}
Files == packFiles \ Removed

env == <<packFiles, pack>>
args == <<object_path, thread_limit, delete_pack>>
workerVars == <<temp, writer, caches, wpc, cur, written, vres, verr, visitorCalls,
                processed, treeNotes, recorded, fatal>>

ExplodeInit ==
    /\ pc = "cli"
    /\ key = None
    /\ parsed = ParseErr(None)
    /\ packFiles \in {{IndexPath, DataPath}, {IndexPath}, {}}
    /\ pack \in Packs
    /\ (packFiles # {IndexPath, DataPath} => pack = << >>)
    /\ object_path = None
    /\ thread_limit = NoLimit
    /\ delete_pack = FALSE
    /\ bundleOpen = FALSE
    /\ store = {}
    /\ temp = [w \in Workers |-> NoId]
    /\ writer = [w \in Workers |-> None]
    /\ caches = 0
    /\ wpc = [w \in Workers |-> "off"]
    /\ cur = [w \in Workers |-> NoId]
    /\ written = [o \in Entries |-> NoId]
    /\ vres = [o \in Entries |-> "todo"]
    /\ verr = [o \in Entries |-> NoError]
    /\ visitorCalls = 0
    /\ processed = 0
    /\ treeNotes = [o \in Entries |-> 0]
    /\ recorded = {}
    /\ fatal = NoId
    /\ travResult = "Pending"
    /\ removedNote = 0
    /\ removals = {}
    /\ result = Pending

\* no Scheme is converted in an explosion run
SchemeIdle ==
    /\ value = << >>
    /\ scheme = Unset
    /\ name = Unset
    /\ shown = Unset

Init == ExplodeInit /\ SchemeIdle

\* ------------------------------------------------------- pure parts of the code
Bundle_at_unchecked(files) == TRUE

\* pack::Bundle::at: the path must resolve to a paired index and data file
Bundle_at(files) == {IndexPath, DataPath} \subseteq files

\* Path::is_dir
is_dir(path) == path \in Directories

DestinationInaccessible_unchecked(path) == FALSE

\* !object_path.map(is_dir).unwrap_or(true)
DestinationInaccessible(path) == IF path = None THEN FALSE ELSE ~is_dir(path)

WriteTarget_always_sink(variant) == "sink"

\* OutputWriter::write_buf: the variant decides where the object goes
WriteTarget(variant) == IF variant = "Loose" THEN "db" ELSE "sink"

\* the visitor after the write: Ok (with or without a note) or an error
VisitOk(note) == [ok |-> TRUE, note |-> note, error |-> NoError]
VisitErr(e) == [ok |-> FALSE, note |-> 0, error |-> e]

Compare_no_exception(object_kind, oid, written_id) ==
    IF written_id # oid
    THEN VisitErr(ObjectEncodeMismatch(object_kind, oid, written_id))
    ELSE VisitOk(0)

Compare_tolerate_all(object_kind, oid, written_id) ==
    IF written_id # oid THEN VisitOk(1) ELSE VisitOk(0)

Compare(object_kind, oid, written_id) ==
    IF written_id # oid
    THEN IF object_kind = "Tree"
         THEN VisitOk(1)
         ELSE VisitErr(ObjectEncodeMismatch(object_kind, oid, written_id))
    ELSE VisitOk(0)

\* the `?` on the traversal's result: an error ends the run
Propagate_ignored(trav) == Ok

Propagate(trav) == IF trav = "Err" THEN Err("TraverseFailed", << >>) ELSE Ok

RemoveFileError_swallowed == Ok

\* remove_file(index).and_then(remove_file(data)).map_err(RemoveFile)?
RemoveFileError == Err("RemoveFile", <<IndexPath, DataPath>>)

\* ---------------------------------------------------------------- actions
\* SafetyCheck::from_str on the key given on the command line
FromStr ==
    /\ pc = "cli"
    /\ \E s \in Keys :
         /\ key' = s
         /\ parsed' = from_str(s)
         /\ IF from_str(s).ok
            THEN pc' = "call" /\ result' = result
            ELSE pc' = "done" /\ result' = Err("ConfigError", <<s>>)
    /\ UNCHANGED <<env, args, bundleOpen, store, workerVars, travResult,
                   removedNote, removals>>

\* pack_or_pack_index is entered and opens the bundle
OpenBundle ==
    /\ pc = "call"
    /\ \E op \in ObjectPaths, tl \in ThreadLimits, dp \in BOOLEAN :
         /\ object_path' = op
         /\ thread_limit' = tl
         /\ delete_pack' = dp
    /\ IF Bundle_at(packFiles)
       THEN bundleOpen' = TRUE /\ pc' = "check_dir" /\ result' = result
       ELSE bundleOpen' = FALSE /\ pc' = "done"
            /\ result' = Err("BundleOpen", <<PackPath>>)
    /\ UNCHANGED <<key, parsed, env, store, workerVars, travResult, removedNote,
                   removals>>

\* the object directory, when given, must be a directory
CheckDestination ==
    /\ pc = "check_dir"
    /\ IF DestinationInaccessible(object_path)
       THEN /\ result' = Err("InaccessibleDestination", <<object_path>>)
            /\ bundleOpen' = FALSE
            /\ pc' = "done"
       ELSE /\ pc' = "traverse"
            /\ UNCHANGED <<result, bundleOpen>>
    /\ UNCHANGED <<key, parsed, env, args, store, workerVars, travResult,
                   removedNote, removals>>

\* the traversal starts: under the strictest level the checksum of the pack
\* file is verified, and a mismatch aborts before any entry is looked at;
\* otherwise each worker gets an output writer from the factory closure and a
\* decode cache from DecodeEntryLRU::default
TraverseStart ==
    /\ pc = "traverse"
    /\ pc' = "traversing"
    /\ \E sumOk \in BOOLEAN :
         IF VerifiesFileChecksum(TraverseCheck(parsed.val)) /\ ~sumOk
         THEN /\ fatal' = ChecksumMismatch
              /\ UNCHANGED <<writer, caches, wpc>>
         ELSE /\ writer' = [w \in Workers |->
                    IF w \in Active THEN OutputWriter_new(object_path) ELSE None]
              /\ caches' = Cardinality(Active)
              /\ wpc' = [w \in Workers |-> IF w \in Active THEN "idle" ELSE "off"]
              /\ fatal' = fatal
    /\ UNCHANGED <<key, parsed, env, args, bundleOpen, store, temp, cur, written,
                   vres, verr, visitorCalls, processed, treeNotes, recorded,
                   travResult, removedNote, removals, result>>

\* how the traversal treats a per-object error: abort, or record and go on
Fail(o, e) ==
    /\ verr' = [verr EXCEPT ![o] = e]
    /\ IF FatalError(TraverseCheck(parsed.val))
       THEN /\ fatal' = IF fatal = NoId THEN o ELSE fatal
            /\ recorded' = recorded
       ELSE /\ recorded' = recorded \cup {o}
            /\ fatal' = fatal

\* a worker takes an entry not yet taken and decodes it
Decode(w) ==
    /\ pc = "traversing"
    /\ wpc[w] = "idle"
    /\ fatal = NoId
    /\ \E o \in Entries :
         /\ vres[o] = "todo"
         /\ IF pack[o] = Corrupt
            THEN /\ vres' = [vres EXCEPT ![o] = "DecodeErr"]
                 /\ Fail(o, DecodeError(KindOf(o), o))
                 /\ UNCHANGED <<wpc, cur>>
            ELSE /\ vres' = [vres EXCEPT ![o] = "decoded"]
                 /\ wpc' = [wpc EXCEPT ![w] = "decoded"]
                 /\ cur' = [cur EXCEPT ![w] = o]
                 /\ UNCHANGED <<verr, fatal, recorded>>
    /\ UNCHANGED <<pc, key, parsed, env, args, bundleOpen, store, temp, writer,
                   caches, written, visitorCalls, processed, treeNotes, travResult,
                   removedNote, removals, result>>

\* the visitor is invoked and writes the object through its output writer:
\* the sink returns the id at once, the loose store creates the object's file
\* under a temporary name, or fails
WriteBuf(w) ==
    /\ wpc[w] = "decoded"
    /\ visitorCalls' = visitorCalls + 1
    /\ LET o == cur[w]
           id == Hash(KindOf(o), pack[o])
       IN IF WriteTarget(writer[w]) = "sink"
          THEN /\ written' = [written EXCEPT ![o] = id]
               /\ wpc' = [wpc EXCEPT ![w] = "written"]
               /\ UNCHANGED <<temp, cur, vres, verr, fatal, recorded>>
          ELSE \E io \in BOOLEAN :
                 IF io
                 THEN /\ temp' = [temp EXCEPT ![w] = id]
                      /\ wpc' = [wpc EXCEPT ![w] = "writing"]
                      /\ UNCHANGED <<written, cur, vres, verr, fatal, recorded>>
                 ELSE /\ vres' = [vres EXCEPT ![o] = "WriteErr"]
                      /\ Fail(o, WriteError(KindOf(o), o))
                      /\ wpc' = [wpc EXCEPT ![w] = "idle"]
                      /\ cur' = [cur EXCEPT ![w] = NoId]
                      /\ UNCHANGED <<temp, written>>
    /\ UNCHANGED <<pc, key, parsed, env, args, bundleOpen, store, writer, caches,
                   processed, treeNotes, travResult, removedNote, removals, result>>

\* the loose store moves the temporary file to the place its id names and
\* returns the id; a file already there is replaced by the same content
Persist(w) ==
    /\ wpc[w] = "writing"
    /\ store' = store \cup {temp[w]}
    /\ written' = [written EXCEPT ![cur[w]] = temp[w]]
    /\ temp' = [temp EXCEPT ![w] = NoId]
    /\ wpc' = [wpc EXCEPT ![w] = "written"]
    /\ UNCHANGED <<pc, key, parsed, env, args, bundleOpen, writer, caches, cur, vres,
                   verr, visitorCalls, processed, treeNotes, recorded, fatal,
                   travResult, removedNote, removals, result>>

Visit_rollback(w) ==
    /\ wpc[w] = "written"
    /\ LET o == cur[w]
           r == Compare(KindOf(o), o, written[o])
       IN IF r.ok
          THEN /\ vres' = [vres EXCEPT ![o] = "Ok"]
               /\ processed' = processed + 1
               /\ treeNotes' = [treeNotes EXCEPT ![o] = @ + r.note]
               /\ UNCHANGED <<verr, fatal, recorded, store>>
          ELSE /\ vres' = [vres EXCEPT ![o] = "Mismatch"]
               /\ Fail(o, r.error)
               /\ store' = store \ {written[o]}
               /\ UNCHANGED <<processed, treeNotes>>
    /\ wpc' = [wpc EXCEPT ![w] = "idle"]
    /\ cur' = [cur EXCEPT ![w] = NoId]
    /\ UNCHANGED <<pc, key, parsed, env, args, bundleOpen, temp, writer,
                   caches, written, visitorCalls, travResult, removedNote, removals,
                   result>>

\* the visitor compares the written id with the recorded one and returns;
\* the traversal counts the object or treats the error
Visit(w) ==
    /\ wpc[w] = "written"
    /\ LET o == cur[w]
           r == Compare(KindOf(o), o, written[o])
       IN IF r.ok
          THEN /\ vres' = [vres EXCEPT ![o] = "Ok"]
               /\ processed' = processed + 1
               /\ treeNotes' = [treeNotes EXCEPT ![o] = @ + r.note]
               /\ UNCHANGED <<verr, fatal, recorded>>
          ELSE /\ vres' = [vres EXCEPT ![o] = "Mismatch"]
               /\ Fail(o, r.error)
               /\ UNCHANGED <<processed, treeNotes>>
    /\ wpc' = [wpc EXCEPT ![w] = "idle"]
    /\ cur' = [cur EXCEPT ![w] = NoId]
    /\ UNCHANGED <<pc, key, parsed, env, args, bundleOpen, store, temp, writer,
                   caches, written, visitorCalls, travResult, removedNote, removals,
                   result>>

TraverseReturn_waits_for_all ==
    /\ pc = "traversing"
    /\ Busy = {}
    /\ \A o \in Entries : vres[o] # "todo"
    /\ travResult' = IF fatal # NoId THEN "Err" ELSE "Ok"
    /\ wpc' = [w \in Workers |-> "off"]
    /\ IF Propagate(travResult').status = "Err"
       THEN /\ result' = Propagate(travResult')
            /\ bundleOpen' = FALSE
            /\ pc' = "done"
       ELSE /\ pc' = "collected"
            /\ UNCHANGED <<result, bundleOpen>>
    /\ UNCHANGED <<key, parsed, env, args, store, temp, writer, caches, cur, written,
                   vres, verr, visitorCalls, processed, treeNotes, recorded, fatal,
                   removedNote, removals>>

\* the traversal returns once its workers are done: after an abort, or when
\* no entry is left; an error ends the run
TraverseReturn ==
    /\ pc = "traversing"
    /\ Busy = {}
    /\ fatal # NoId \/ \A o \in Entries : vres[o] # "todo"
    /\ travResult' = IF fatal # NoId THEN "Err" ELSE "Ok"
    /\ wpc' = [w \in Workers |-> "off"]
    /\ IF Propagate(travResult').status = "Err"
       THEN /\ result' = Propagate(travResult')
            /\ bundleOpen' = FALSE
            /\ pc' = "done"
       ELSE /\ pc' = "collected"
            /\ UNCHANGED <<result, bundleOpen>>
    /\ UNCHANGED <<key, parsed, env, args, store, temp, writer, caches, cur, written,
                   vres, verr, visitorCalls, processed, treeNotes, recorded, fatal,
                   removedNote, removals>>

DropBundle_keeps_bundle ==
    /\ pc = "collected"
    /\ bundleOpen' = bundleOpen
    /\ IF delete_pack
       THEN pc' = "rm_index" /\ result' = result
       ELSE pc' = "done" /\ result' = Ok
    /\ UNCHANGED <<key, parsed, env, args, store, workerVars, travResult,
                   removedNote, removals>>

DropBundle_always_delete ==
    /\ pc = "collected"
    /\ bundleOpen' = FALSE
    /\ pc' = "rm_index" /\ result' = result
    /\ UNCHANGED <<key, parsed, env, args, store, workerVars, travResult,
                   removedNote, removals>>

\* the paths are taken and the bundle is dropped; without delete_pack the run
\* is over
DropBundle ==
    /\ pc = "collected"
    /\ bundleOpen' = FALSE
    /\ IF delete_pack
       THEN pc' = "rm_index" /\ result' = result
       ELSE pc' = "done" /\ result' = Ok
    /\ UNCHANGED <<key, parsed, env, args, store, workerVars, travResult,
                   removedNote, removals>>

Removal(path) == [path |-> path, open |-> bundleOpen, busy |-> Busy # {}]

RemoveIndex_data_first ==
    /\ pc = "rm_index"
    /\ \E ok \in BOOLEAN :
         IF ok
         THEN /\ removals' = removals \cup {Removal(DataPath)}
              /\ pc' = "rm_data"
              /\ result' = result
         ELSE /\ result' = RemoveFileError
              /\ pc' = "done"
              /\ UNCHANGED removals
    /\ UNCHANGED <<key, parsed, env, args, bundleOpen, store, workerVars,
                   travResult, removedNote>>

\* fs::remove_file(&index_path): it succeeds or fails
RemoveIndex ==
    /\ pc = "rm_index"
    /\ \E ok \in BOOLEAN :
         IF ok
         THEN /\ removals' = removals \cup {Removal(IndexPath)}
              /\ pc' = "rm_data"
              /\ result' = result
         ELSE /\ result' = RemoveFileError
              /\ pc' = "done"
              /\ UNCHANGED removals
    /\ UNCHANGED <<key, parsed, env, args, bundleOpen, store, workerVars,
                   travResult, removedNote>>

\* fs::remove_file(&data_path), then the note about the removal
RemoveData ==
    /\ pc = "rm_data"
    /\ \E ok \in BOOLEAN :
         IF ok
         THEN /\ removals' = removals \cup {Removal(DataPath)}
              /\ removedNote' = removedNote + 1
              /\ result' = Ok
         ELSE /\ result' = RemoveFileError
              /\ UNCHANGED <<removals, removedNote>>
    /\ pc' = "done"
    /\ UNCHANGED <<key, parsed, env, args, bundleOpen, store, workerVars,
                   travResult>>

Next ==
    \/ FromStr /\ UNCHANGED schemeVars
    \/ OpenBundle /\ UNCHANGED schemeVars
    \/ CheckDestination /\ UNCHANGED schemeVars
    \/ TraverseStart /\ UNCHANGED schemeVars
    \/ \E w \in Workers : Decode(w) /\ UNCHANGED schemeVars
    \/ \E w \in Workers : WriteBuf(w) /\ UNCHANGED schemeVars
    \/ \E w \in Workers : Persist(w) /\ UNCHANGED schemeVars
    \/ \E w \in Workers : Visit(w) /\ UNCHANGED schemeVars
    \/ TraverseReturn /\ UNCHANGED schemeVars
    \/ DropBundle /\ UNCHANGED schemeVars
    \/ RemoveIndex /\ UNCHANGED schemeVars
    \/ RemoveData /\ UNCHANGED schemeVars

Spec == Init /\ [][Next]_vars

\* the threads of the run keep being scheduled: a step that can be taken is
\* taken eventually
FairSpec == Spec /\ WF_vars(Next)

TypeOK ==
    /\ pc \in {"cli", "call", "check_dir", "traverse", "traversing", "collected",
               "rm_index", "rm_data", "done"}
    /\ store \subseteq Oids
    /\ processed \in 0 .. MaxEntries
    /\ packFiles \subseteq {IndexPath, DataPath}
    /\ Removed \subseteq packFiles

\* ------------------------------------------------------------- gix-url Scheme
\* text is a sequence of characters; the characters of the five known names,
\* and an upper-case one
Letters == {"s", "h", "f", "i", "l", "e", "g", "t", "p", "S"}
Strings == UNION {[1 .. n -> Letters] : n \in 0 .. MaxNameLen}

\* enum Scheme
File == <<"File">>
Git == <<"Git">>
Ssh == <<"Ssh">>
Http == <<"Http">>
Https == <<"Https">>
Ext(text) == <<"Ext", text>>

\* impl From<&str> for Scheme
Scheme_from(text) ==
    CASE text = <<"s", "s", "h">> -> Ssh
      [] text = <<"f", "i", "l", "e">> -> File
      [] text = <<"g", "i", "t">> -> Git
      [] text = <<"h", "t", "t", "p">> -> Http
      [] text = <<"h", "t", "t", "p", "s">> -> Https
      [] OTHER -> Ext(text)

as_str_https_as_http(s) ==
    CASE s = File -> <<"f", "i", "l", "e">>
      [] s = Git -> <<"g", "i", "t">>
      [] s = Ssh -> <<"s", "s", "h">>
      [] s \in {Http, Https} -> <<"h", "t", "t", "p">>
      [] OTHER -> s[2]

\* Scheme::as_str
as_str(s) ==
    CASE s = File -> <<"f", "i", "l", "e">>
      [] s = Git -> <<"g", "i", "t">>
      [] s = Ssh -> <<"s", "s", "h">>
      [] s = Http -> <<"h", "t", "t", "p">>
      [] s = Https -> <<"h", "t", "t", "p", "s">>
      [] OTHER -> s[2]

\* impl Display for Scheme: write_str appends as_str to what the formatter
\* holds
fmt(s, f) == f \o as_str(s)

\* no explosion runs while Schemes are converted
ExplodeIdle == ExplodeInit /\ packFiles = {}

SchemeInit ==
    /\ ExplodeIdle
    /\ value \in Strings
    /\ scheme = Unset
    /\ name = Unset
    /\ shown = Unset

\* Scheme::from(value)
From ==
    /\ scheme = Unset
    /\ scheme' = Some(Scheme_from(value))
    /\ UNCHANGED <<value, name, shown, explodeVars>>

\* scheme.as_str()
AsStr ==
    /\ scheme # Unset
    /\ name = Unset
    /\ name' = Some(as_str(scheme[1]))
    /\ UNCHANGED <<value, scheme, shown, explodeVars>>

\* scheme.to_string(): Display::fmt into an empty formatter
Display ==
    /\ scheme # Unset
    /\ shown = Unset
    /\ shown' = Some(fmt(scheme[1], << >>))
    /\ UNCHANGED <<value, scheme, name, explodeVars>>

SchemeNext ==
    \/ From
    \/ AsStr
    \/ Display

SchemeSpec == SchemeInit /\ [][SchemeNext]_vars

\* ------------------------------------------------------------------ claims
Done == pc = "done"
BothFiles == {IndexPath, DataPath}
\* the run got as far as the traversal, and the traversal has returned
Traversed == travResult # "Pending"
\* the visitor has returned for the entry
Visited(o) == vres[o] \in {"Ok", "Mismatch", "WriteErr"}
NoWork ==
    /\ visitorCalls = 0
    /\ caches = 0
    /\ store = {}
    /\ \A w \in Workers : temp[w] = NoId /\ writer[w] = None
    /\ processed = 0
    /\ removals = {}

\* C1 as stated: with delete_pack, both files are removed exactly when the run
\* succeeded, and after every run that ends in failure both files still exist.
C1_Original ==
    (Done /\ delete_pack /\ Bundle_at(packFiles)) =>
        /\ (Files = {} <=> result = Ok)
        /\ (result.status = "Err" => Files = BothFiles)

\* C1 amended: with delete_pack, both files are removed exactly when the run
\* returned success, and a file is only ever removed after a traversal without
\* fatal error; after a run that ends in a validation or traversal failure both
\* files still exist; after a run that ends in the deletion error the data file
\* still exists, and only the index file may be gone.
C1_DeletionGating ==
    /\ (Removed # {} => delete_pack /\ travResult = "Ok" /\ fatal = NoId)
    /\ (Done /\ delete_pack /\ Bundle_at(packFiles)) =>
          /\ (Files = {} <=> result = Ok)
          /\ (result.status = "Err" /\ result # RemoveFileError => Files = BothFiles)
          /\ (result = RemoveFileError => DataPath \in Files /\ travResult = "Ok")

C1_Witness ==
    /\ Done /\ delete_pack /\ result = Ok
    /\ Files = {} /\ packFiles = BothFiles
    /\ processed > 0

\* C2 as stated: when the traversal succeeded and a removal fails, the run
\* still reports the successful outcome of the explosion.
C2_Original ==
    (Done /\ delete_pack /\ travResult = "Ok" /\ Files # {}) => result.status = "Ok"

\* C2 amended: when the traversal returned without fatal error, delete_pack is
\* set and removing the index or the data file fails, the run returns the
\* deletion error naming both paths, which differs from the error of a failed
\* traversal, and no success value; the traversal's outcome stays successful
\* and every object written stays in the store.
C2_DeletionError ==
    (Done /\ delete_pack /\ travResult = "Ok" /\ Files # {}) =>
        /\ result = Err("RemoveFile", <<IndexPath, DataPath>>)
        /\ result # Propagate("Err")
        /\ fatal = NoId
        /\ \A o \in Entries :
              (vres[o] = "Ok" /\ object_path # None) => written[o] \in store

C2_Witness ==
    /\ Done /\ delete_pack /\ travResult = "Ok"
    /\ Files = {DataPath}
    /\ result = RemoveFileError
    /\ store # {}

\* C3 as stated: an object directory that is no directory makes the run fail
\* with the error about the inaccessible destination, without any work.
C3_Original ==
    (Done /\ object_path \notin Directories \cup {None}) =>
        /\ result = Err("InaccessibleDestination", <<object_path>>)
        /\ NoWork

\* C3 amended: when the pack path resolves to a valid bundle and the object
\* directory given does not exist or is no directory, the run fails with the
\* error about the inaccessible destination naming that path; the visitor is
\* never invoked, no decode cache and no writer is created, nothing is written
\* and no pack file is removed, with or without delete_pack.
C3_DestinationPrecondition ==
    (Bundle_at(packFiles) /\ object_path \notin Directories \cup {None}) =>
        /\ NoWork
        /\ Files = BothFiles
        /\ pc \in {"check_dir", "done"}
        /\ Done => result = Err("InaccessibleDestination", <<object_path>>)

C3_Witness ==
    /\ Done /\ delete_pack /\ object_path = "missing"
    /\ pack # << >>
    /\ result = Err("InaccessibleDestination", <<"missing">>)

\* the policy of the run, by its name in SafetyCheck
StrictRun ==
    /\ parsed.ok
    /\ parsed.val \in {"All", "SkipFileChecksumVerification",
                       "SkipFileAndObjectChecksumVerification"}
LenientRun ==
    /\ parsed.ok
    /\ parsed.val = "SkipFileAndObjectChecksumVerificationAndNoAbortOnDecodeError"

CorruptEntries == {o \in Entries : pack[o] = Corrupt}
\* an entry that decodes and is written under its recorded id, or is a tree
ValidEntry(o) ==
    /\ pack[o] # Corrupt
    /\ Hash(KindOf(o), pack[o]) = o \/ KindOf(o) = "Tree"
\* a pack with exactly one undecodable entry and K valid entries
OneCorruptRestValid ==
    /\ Cardinality(CorruptEntries) = 1
    /\ \A o \in Entries \ CorruptEntries : ValidEntry(o)
K == Cardinality(Entries) - 1
NoWriteFault == \A o \in Entries : vres[o] # "WriteErr"
InVisitor(o) == \E w \in Workers : cur[w] = o
CountedOk == Cardinality({o \in Entries : vres[o] = "Ok"})

\* C4 as stated: under the three strict policies a pack with one undecodable
\* entry and K valid ones makes the run fail with fewer than K objects
\* processed.
C4_Original ==
    (Done /\ Traversed /\ StrictRun /\ OneCorruptRestValid /\ K >= 1) =>
        /\ result.status = "Err"
        /\ processed < K

\* C4 amended: under the three strict policies a pack with one undecodable
\* entry and K valid ones makes the traversal and the run fail, with at most K
\* objects processed (K when the undecodable entry is met after the valid
\* ones), whatever the thread limit and the interleaving; no pack file is
\* removed.
C4_StrictAbort ==
    (Traversed /\ StrictRun /\ OneCorruptRestValid) =>
        /\ travResult = "Err"
        /\ fatal # NoId
        /\ recorded = {}
        /\ processed <= K
        /\ Removed = {}
        /\ Done /\ result = Err("TraverseFailed", << >>)

C4_Witness ==
    /\ Done /\ OneCorruptRestValid /\ K = 2
    /\ parsed.val = "SkipFileAndObjectChecksumVerification"
    /\ thread_limit = NoLimit
    /\ fatal \in CorruptEntries
    /\ processed = 1
    /\ result.status = "Err"

C7_NonTreeMismatch ==
    \A o \in Entries :
        (KindOf(o) # "Tree" /\ written[o] # NoId /\ written[o] # o /\ ~InVisitor(o)) =>
            /\ vres[o] = "Mismatch"
            /\ verr[o].err = "ObjectEncodeMismatch"
            /\ verr[o].kind = KindOf(o)
            /\ {verr[o].actual, verr[o].expected} = {o, written[o]}
            /\ processed = CountedOk
            /\ IF LenientRun
               THEN /\ o \in recorded
                    /\ fatal = NoId
                    /\ Traversed =>
                          /\ travResult = "Ok"
                          /\ \A e \in Entries : vres[e] \notin {"todo", "decoded"}
               ELSE /\ o \notin recorded
                    /\ fatal # NoId
                    /\ pc \in {"traversing", "done"}
                    /\ Traversed => travResult = "Err"
                    /\ Done => result = Err("TraverseFailed", << >>)

C7_Witness ==
    /\ Done /\ LenientRun /\ result = Ok
    /\ \E o \in Entries :
          /\ KindOf(o) = "Blob" /\ vres[o] = "Mismatch" /\ o \in recorded
          /\ written[o] \in store
    /\ processed = 2

\* C8: the four keys parse to their own levels, every key of variants()
\* parses, and any other text, case variants included, fails with an error
\* that carries the text.
C8_KeyParsing ==
    /\ \A i \in 1 .. Len(variants) : from_str(variants[i]).ok
    /\ Cardinality({from_str(variants[i]).val : i \in 1 .. Len(variants)}) = 4
    /\ pc # "cli" =>
          /\ key = "all" => parsed = ParseOk("All")
          /\ key = "skip-file-checksum" => parsed = ParseOk("SkipFileChecksumVerification")
          /\ key = "skip-file-and-object-checksum"
                => parsed = ParseOk("SkipFileAndObjectChecksumVerification")
          /\ key = "skip-file-and-object-checksum-and-no-abort-on-decode"
                => parsed = ParseOk(
                     "SkipFileAndObjectChecksumVerificationAndNoAbortOnDecodeError")
          /\ key \notin {variants[i] : i \in 1 .. Len(variants)} =>
                /\ ~parsed.ok
                /\ \E i \in 1 .. Len(parsed.err) : parsed.err[i] = key
                /\ pc = "done" /\ result.status = "Err"

C8_Witness ==
    /\ pc = "done" /\ key = "Skip-File-Checksum"
    /\ ~parsed.ok
    /\ parsed.err[2] = "Skip-File-Checksum"

\* C9: without an object directory every worker's writer is the sink for the
\* whole run, no file is ever created in a loose object store, and every write
\* returns the content id of the object.
C9_DiscardMode ==
    (pc \notin {"cli", "call"} /\ object_path = None) =>
        /\ store = {}
        /\ \A w \in Workers : temp[w] = NoId
        /\ \A w \in Workers : writer[w] \in {None, "Sink"}
        /\ \A w \in Workers : wpc[w] # "off" => writer[w] = "Sink"
        /\ \A o \in Entries :
              /\ vres[o] # "WriteErr"
              /\ (vres[o] \in {"Ok", "Mismatch"} \/ \E w \in Workers :
                      cur[w] = o /\ wpc[w] = "written")
                    => written[o] = Hash(KindOf(o), pack[o])

C9_Witness ==
    /\ Done /\ object_path = None /\ result = Ok
    /\ processed = 3
    /\ visitorCalls = 3
    /\ store = {}

C11_BundleOpenFailure ==
    (parsed.ok /\ pc \notin {"cli", "call"} /\ ~({IndexPath, DataPath} \subseteq packFiles)) =>
        /\ Done
        /\ result = Err("BundleOpen", <<PackPath>>)
        /\ ~bundleOpen
        /\ travResult = "Pending"
        /\ NoWork
        /\ Files = packFiles

C11_Witness ==
    /\ Done /\ delete_pack /\ object_path = "objs"
    /\ packFiles = {IndexPath}
    /\ Files = {IndexPath}
    /\ result = Err("BundleOpen", <<PackPath>>)

\* C12: without delete_pack both backing files of a valid pack exist in every
\* state of the run, whatever its outcome, policy or writer; with delete_pack
\* nothing but the index file and the data file is ever removed, and only in
\* the deletion step after a traversal without fatal error.
C12_PackFilesFrame ==
    /\ Removed \subseteq {IndexPath, DataPath}
    /\ ~delete_pack => Removed = {} /\ removedNote = 0
    /\ (~delete_pack /\ Bundle_at(packFiles)) => Files = BothFiles
    /\ Removed # {} => pc \in {"rm_data", "done"} /\ travResult = "Ok"
    /\ pc \in {"rm_index", "rm_data"} => delete_pack

C12_Witness ==
    /\ Done /\ ~delete_pack /\ object_path = "objs"
    /\ parsed.val = "SkipFileChecksumVerification"
    /\ result = Ok
    /\ processed = 3
    /\ Files = BothFiles


\* C13: in a run that persists, once the visitor has reported
\* ObjectEncodeMismatch for an object that is no tree, the object is in the
\* store under the id the writer returned, which is the hash of its content
\* and not the recorded id; the recorded id is in the store only if another
\* entry was written under it; this holds in every later state, the end of a
\* failed run included.
C13_WriteBeforeCompare ==
    \A o \in Entries :
        (object_path \in Directories /\ vres[o] = "Mismatch") =>
            /\ KindOf(o) # "Tree"
            /\ verr[o].err = "ObjectEncodeMismatch"
            /\ written[o] = Hash(KindOf(o), pack[o])
            /\ written[o] # o
            /\ written[o] \in store
            /\ o \in store => \E e \in Entries \ {o} : written[e] = o

C13_Witness ==
    /\ Done /\ object_path = "objs"
    /\ result = Err("TraverseFailed", << >>)
    /\ \E o \in Entries :
          /\ vres[o] = "Mismatch" /\ fatal = o
          /\ written[o] \in store
          /\ o \notin store

\* C14: every removal of a pack file happened with the bundle dropped and no
\* worker in an entry; once a file is removed, the traversal has returned
\* without fatal error, the bundle is closed and all workers are gone; the
\* removals are steps of the orchestrating thread after the traversal.
C14_DeletionAfterTraversal ==
    /\ \A r \in removals : ~r.open /\ ~r.busy
    /\ Removed # {} =>
          /\ travResult = "Ok"
          /\ ~bundleOpen
          /\ \A w \in Workers : wpc[w] = "off" /\ cur[w] = NoId /\ temp[w] = NoId
    /\ pc \in {"rm_index", "rm_data"} =>
          /\ ~bundleOpen
          /\ travResult = "Ok"
          /\ \A w \in Workers : wpc[w] = "off"
    /\ (bundleOpen \/ Busy # {}) => Removed = {}

C14_Witness ==
    /\ Done /\ thread_limit = NoLimit /\ object_path = "objs"
    /\ Removed = BothFiles
    /\ visitorCalls = 3
    /\ \A r \in removals : ~r.open /\ ~r.busy

\* C15: the data file is removed only after the index file was; when removing
\* the index file fails, the data file stays and the run returns the deletion
\* error naming both paths.
C15_IndexThenData ==
    /\ DataPath \in Removed => IndexPath \in Removed
    /\ pc = "rm_data" => Removed = {IndexPath}
    /\ (Done /\ delete_pack /\ travResult = "Ok" /\ IndexPath \in Files) =>
          /\ DataPath \in Files
          /\ result = Err("RemoveFile", <<IndexPath, DataPath>>)

C15_Witness ==
    /\ Done /\ delete_pack /\ travResult = "Ok"
    /\ Files = BothFiles
    /\ result = Err("RemoveFile", <<IndexPath, DataPath>>)
    /\ processed > 0


\* what a run over the pack yields, from the pack and the writer alone
Decodable == {o \in Entries : pack[o] # Corrupt}
ExpectedProcessed == Cardinality({o \in Entries : ValidEntry(o)})
ExpectedTolerated ==
    Cardinality({o \in Decodable :
                   KindOf(o) = "Tree" /\ Hash(KindOf(o), pack[o]) # o})
ExpectedStore ==
    IF object_path \in Directories
    THEN {Hash(KindOf(o), pack[o]) : o \in Decodable}
    ELSE {}
ToleratedCount == Cardinality({o \in Entries : treeNotes[o] > 0})

\* C16: every traversal that returns without fatal error, and without an I/O
\* failure of a write, ends with the processed count, the count of tolerated
\* mismatches and the set of stored objects that the pack, the policy and the
\* writer determine, whatever the number of workers, the assignment of entries
\* to workers and the interleaving.
C16_OrderIndependence ==
    (travResult = "Ok" /\ NoWriteFault) =>
        /\ processed = ExpectedProcessed
        /\ ToleratedCount = ExpectedTolerated
        /\ \A o \in Entries : treeNotes[o] <= 1
        /\ store = ExpectedStore
        /\ recorded = {o \in Entries : ~ValidEntry(o)}
        /\ (recorded # {} => LenientRun)

C16_Witness ==
    /\ Done /\ result = Ok /\ thread_limit = NoLimit /\ object_path = "objs"
    /\ parsed.val = "SkipFileAndObjectChecksumVerificationAndNoAbortOnDecodeError"
    /\ processed = 2
    /\ ToleratedCount = 1
    /\ Cardinality(recorded) = 1
    /\ Cardinality(store) = 2

\* C17: the set of objects in the destination store only grows: no step of a
\* run, the failing of the traversal, a deletion error and the deletion of the
\* pack included, takes an object out of the store.
C17_StoreOnlyGrows == [][store \subseteq store']_vars

C17_Witness ==
    /\ Done /\ object_path = "objs" /\ delete_pack
    /\ result = RemoveFileError
    /\ Cardinality(store) = 3
    /\ \E o \in Entries : vres[o] = "Mismatch" /\ written[o] \in store

\* C18: in every run in which a backing file of the pack was removed, every
\* object recorded in the pack index is in the destination store, under its
\* recorded id or, for a tolerated tree, under the id it was written as.
C18_DeletionKeepsObjects ==
    Removed # {} =>
        \A o \in Entries :
            \/ o \in store
            \/ KindOf(o) = "Tree" /\ written[o] # NoId /\ written[o] \in store

\* C19: under fair scheduling every run reaches its end: success, a failed
\* validation, a failed traversal or the deletion error.
C19_Terminates == <>Done

C19_Witness ==
    /\ Done /\ thread_limit = NoLimit
    /\ travResult = "Err"
    /\ fatal \in Entries
    /\ \E o \in Entries : vres[o] = "todo"
    /\ \E o \in Entries : vres[o] = "Ok"

\* C20: an ObjectEncodeMismatch reported for an entry has the id recorded in
\* the pack index as `expected` and the id the writer returned as `actual`.
C20_MismatchRoles ==
    \A o \in Entries :
        verr[o].err = "ObjectEncodeMismatch" =>
            /\ verr[o].expected = o
            /\ verr[o].actual = written[o]


\* the five names with a dedicated variant
KnownNames ==
    {<<"s", "s", "h">>, <<"f", "i", "l", "e">>, <<"g", "i", "t">>,
     <<"h", "t", "t", "p">>, <<"h", "t", "t", "p", "s">>}

\* C21: for every text, as_str of the Scheme converted from it returns exactly
\* that text, and Display writes the same text; ssh, file, git, http and https
\* convert to their dedicated variants, never to Ext, and every other text
\* converts to Ext carrying it unchanged.
C21_SchemeRoundTrip ==
    /\ name # Unset => name[1] = value
    /\ shown # Unset => shown[1] = value
    /\ scheme # Unset =>
        /\ (value = <<"s", "s", "h">> => scheme[1] = Ssh)
        /\ (value = <<"f", "i", "l", "e">> => scheme[1] = File)
        /\ (value = <<"g", "i", "t">> => scheme[1] = Git)
        /\ (value = <<"h", "t", "t", "p">> => scheme[1] = Http)
        /\ (value = <<"h", "t", "t", "p", "s">> => scheme[1] = Https)
        /\ (value \in KnownNames => scheme[1][1] # "Ext")
        /\ (value \notin KnownNames => scheme[1] = Ext(value))

\* https has been converted, named and displayed
C21_Witness ==
    /\ value = <<"h", "t", "t", "p", "s">>
    /\ scheme = Some(Https)
    /\ name = Some(value)
    /\ shown = Some(value)

====
